---- MODULE Spec2Model ----
(***************************************************************************)
(* Model of the Android Hello World template's post-generation hook        *)
(* (src/hooks/post_gen_project.py) and of its validator                    *)
(* (src/scripts/validator.py).                                             *)
(*                                                                         *)
(* A Python str is a sequence of one-character strings; a message built    *)
(* with an f-string is the concatenation of its literal parts and of the   *)
(* formatted values, so every message is a sequence of strings.            *)
(***************************************************************************)
EXTENDS Integers, Sequences, FiniteSets, TLC

VARIABLES
  ctx,          \* the context mapping handed to validate_all
  errors,       \* self.errors of the validator instance
  warnings,     \* self.warnings of the validator instance
  pc,           \* position of the validator
  idx,          \* position of the loop over required_fields
  calls,        \* history: the rules and probes the current run has invoked
  errSrc,       \* history: for each entry of errors, the check that appended it
  out,          \* logger calls and print calls, in the order they were made
  result,       \* the value the last validation call returned
  envObs,       \* what validate_environment saw: the java outcome and the
                \* results of its exists() calls
  prev,         \* result and envObs of the previous run (second run only)
  runs,         \* number of validation runs started
  hpc,          \* position of the hook's main()
  impl,         \* which validate_template_inputs the hook's import bound
  contextFile,  \* cookiecutter_context.json as main() finds it
  tempFile,     \* whether cookiecutter_context.json is on disk
  reqOutcome,   \* how step 2 (requirements file) ended
  exitCode,     \* the process's exit status
  exitVia,      \* the statement that ended the process
  version,      \* argument of a direct validate_sdk_version call
  ret           \* value a direct validate_sdk_version call returned

vars == <<ctx, errors, warnings, pc, idx, calls, errSrc, out, result, envObs,
          prev, runs, hpc, impl, contextFile, tempFile, reqOutcome, exitCode,
          exitVia, version, ret>>

valVars == <<ctx, errors, warnings, pc, idx, calls, errSrc, result, envObs,
             prev, runs>>

hookVars == <<hpc, impl, contextFile, tempFile, reqOutcome, exitCode, exitVia>>

sdkVars == <<version, ret>>

----------------------------------------------------------------------------
(* Bounds of the model.                                                    *)

\* longest string handed to a direct validate_sdk_version call
MaxLen == 3

\* a context differs from the reference context in at most this many fields
MaxDeviations == 2

\* validation runs started on one context
MaxRuns == 2

----------------------------------------------------------------------------
(* Characters and character classes.                                       *)

LowerSeq ==
  <<"a","b","c","d","e","f","g","h","i","j","k","l","m",
    "n","o","p","q","r","s","t","u","v","w","x","y","z">>

UpperSeq ==
  <<"A","B","C","D","E","F","G","H","I","J","K","L","M",
    "N","O","P","Q","R","S","T","U","V","W","X","Y","Z">>

DigitSeq == <<"0","1","2","3","4","5","6","7","8","9">>

Range(s) == {s[i] : i \in DOMAIN s}

Lower == Range(LowerSeq)

Upper == Range(UpperSeq)

Digit == Range(DigitSeq)

Letter == Lower \cup Upper

AllIn(s, class) == \A i \in DOMAIN s : s[i] \in class

Tail2(s, k) == SubSeq(s, k, Len(s))

\* re: a pattern's final $ matches at the end and before a final newline
BeforeDollar(s) ==
  IF s # <<>> /\ s[Len(s)] = "\n" THEN {s, SubSeq(s, 1, Len(s) - 1)} ELSE {s}

\* str.lower() on one character
LowerChar(c) ==
  IF c \in Upper
  THEN LowerSeq[CHOOSE i \in DOMAIN UpperSeq : UpperSeq[i] = c]
  ELSE c

ToLower(s) == [i \in DOMAIN s |-> LowerChar(s[i])]

DigitValue(c) == (CHOOSE i \in DOMAIN DigitSeq : DigitSeq[i] = c) - 1

----------------------------------------------------------------------------
(* int(str) and str(int).                                                  *)

RECURSIVE LStrip(_)
LStrip(s) == IF s # <<>> /\ s[1] \in {" ", "\n"} THEN LStrip(Tail(s)) ELSE s

RECURSIVE RStrip(_)
RStrip(s) ==
  IF s # <<>> /\ s[Len(s)] \in {" ", "\n"}
  THEN RStrip(SubSeq(s, 1, Len(s) - 1))
  ELSE s

\* digits, with single underscores allowed between two digits
IsDigitString(d) ==
  /\ d # <<>>
  /\ AllIn(d, Digit \cup {"_"})
  /\ d[1] \in Digit
  /\ d[Len(d)] \in Digit
  /\ \A i \in 1..(Len(d) - 1) : ~(d[i] = "_" /\ d[i + 1] = "_")

RECURSIVE DigitsValue(_, _)
DigitsValue(d, acc) ==
  IF d = <<>> THEN acc
  ELSE IF d[1] = "_" THEN DigitsValue(Tail(d), acc)
  ELSE DigitsValue(Tail(d), 10 * acc + DigitValue(d[1]))

\* int(s): [ok |-> TRUE, val |-> n], or ok = FALSE for a ValueError
PyInt(s) ==
  LET t == RStrip(LStrip(s))
      signed == t # <<>> /\ t[1] \in {"+", "-"}
      d == IF signed THEN Tail(t) ELSE t
  IN  IF IsDigitString(d)
      THEN [ok |-> TRUE,
            val |-> IF signed /\ t[1] = "-"
                    THEN 0 - DigitsValue(d, 0)
                    ELSE DigitsValue(d, 0)]
      ELSE [ok |-> FALSE, val |-> 0]

RECURSIVE NatStr(_)
NatStr(n) ==
  IF n < 10 THEN <<DigitSeq[n + 1]>>
  ELSE Append(NatStr(n \div 10), DigitSeq[(n % 10) + 1])

----------------------------------------------------------------------------
(* The patterns of the field rules, as re.match applies them.              *)

WordChar == Letter \cup Digit \cup {"_"}

PackageChar == Lower \cup Digit \cup {"_"}

LabelChar == Letter \cup Digit \cup {".", "-"}

LocalChar == Letter \cup Digit \cup {".", "_", "%", "+", "-"}

\* index of the first c in s, or Len(s) + 1
IndexOf(s, c) ==
  IF \E i \in DOMAIN s : s[i] = c
  THEN CHOOSE i \in DOMAIN s : s[i] = c /\ \A j \in 1..(i - 1) : s[j] # c
  ELSE Len(s) + 1

\* length of the longest prefix of s made of \d
DigitRun(s) ==
  IF \E i \in DOMAIN s : s[i] \notin Digit
  THEN (CHOOSE i \in DOMAIN s :
          s[i] \notin Digit /\ \A j \in 1..(i - 1) : s[j] \in Digit) - 1
  ELSE Len(s)

\* ^[A-Za-z][A-Za-z0-9_]*$
MatchProjectName(s) ==
  \E t \in BeforeDollar(s) :
    t # <<>> /\ t[1] \in Letter /\ AllIn(Tail(t), WordChar)

\* [a-z][a-z0-9_]*(\.[a-z][a-z0-9_]*)*
RECURSIVE IsPackagePath(_)
IsPackagePath(t) ==
  LET k == IndexOf(t, ".")
      seg == SubSeq(t, 1, k - 1)
  IN  /\ seg # <<>>
      /\ seg[1] \in Lower
      /\ AllIn(seg, PackageChar)
      /\ (k <= Len(t) => IsPackagePath(Tail2(t, k + 1)))

\* ^[a-z][a-z0-9_]*(\.[a-z][a-z0-9_]*)*$
MatchPackageName(s) == \E t \in BeforeDollar(s) : IsPackagePath(t)

\* [a-zA-Z0-9.-]+ to the end
IsBuildMeta(b) == b # <<>> /\ AllIn(b, LabelChar)

\* [a-zA-Z0-9.-]+(\+[a-zA-Z0-9.-]+)? to the end
IsPreRelease(p) ==
  LET k == IndexOf(p, "+")
  IN  /\ IsBuildMeta(SubSeq(p, 1, k - 1))
      /\ (k <= Len(p) => IsBuildMeta(Tail2(p, k + 1)))

\* \d+\.\d+\.\d+(-[a-zA-Z0-9.-]+)?(\+[a-zA-Z0-9.-]+)?
IsSemver(t) ==
  LET a == DigitRun(t)
      t2 == Tail2(t, a + 2)
      b == DigitRun(t2)
      t3 == Tail2(t2, b + 2)
      c == DigitRun(t3)
      rest == Tail2(t3, c + 1)
  IN  /\ a >= 1 /\ Len(t) > a /\ t[a + 1] = "."
      /\ b >= 1 /\ Len(t2) > b /\ t2[b + 1] = "."
      /\ c >= 1
      /\ \/ rest = <<>>
         \/ rest[1] = "-" /\ IsPreRelease(Tail(rest))
         \/ rest[1] = "+" /\ IsBuildMeta(Tail(rest))

\* semver_pattern, line 105
MatchSemver(s) == \E t \in BeforeDollar(s) : IsSemver(t)

\* email_pattern, line 91: ^[a-zA-Z0-9._%+-]+@[a-zA-Z0-9.-]+\.[a-zA-Z]{2,}$
MatchEmail(s) ==
  \E t \in BeforeDollar(s) :
    \E a \in DOMAIN t, k \in DOMAIN t :
      /\ t[a] = "@" /\ a > 1 /\ AllIn(SubSeq(t, 1, a - 1), LocalChar)
      /\ k > a + 1 /\ t[k] = "." /\ AllIn(SubSeq(t, a + 1, k - 1), LabelChar)
      /\ Len(t) - k >= 2 /\ AllIn(Tail2(t, k + 1), Letter)

----------------------------------------------------------------------------
(* The field rules. Each yields the value it returns and the messages it   *)
(* appends to self.errors and to self.warnings.                            *)

Accept == [ret |-> TRUE, errs |-> <<>>, warns |-> <<>>]

Reject(msg) == [ret |-> FALSE, errs |-> <<msg>>, warns |-> <<>>]

AcceptWarn(msg) == [ret |-> TRUE, errs |-> <<>>, warns |-> <<msg>>]

reserved_words ==
  { <<"a","n","d","r","o","i","d">>, <<"t","e","s","t">>, <<"m","a","i","n">>,
    <<"j","a","v","a">>, <<"k","o","t","l","i","n">>,
    <<"g","r","a","d","l","e">> }

validate_project_name(name) ==
  IF name = <<>>
  THEN Reject(<<"Project name cannot be empty">>)
  ELSE IF ~MatchProjectName(name)
  THEN Reject(<<"Project name must start with a letter and contain only letters, numbers, and underscores">>)
  ELSE IF Len(name) > 50
  THEN Reject(<<"Project name must be 50 characters or less">>)
  ELSE IF ToLower(name) \in reserved_words
  THEN AcceptWarn(<<"Project name '">> \o name
                  \o <<"' might conflict with Android reserved words">>)
  ELSE Accept

validate_package_name(package) ==
  IF package = <<>>
  THEN Reject(<<"Package name cannot be empty">>)
  ELSE IF ~MatchPackageName(package)
  THEN Reject(<<"Package name must follow Java package naming conventions (e.g., com.example.app)">>)
  ELSE IF Len(package) > 100
  THEN Reject(<<"Package name must be 100 characters or less">>)
  ELSE Accept

\* the range test with both comparisons made inclusive
SdkOutOfRangeExclusive(version_int, min_version, max_version) ==
  version_int <= min_version \/ version_int >= max_version

\* version_int < min_version or version_int > max_version, line 63
SdkOutOfRange(version_int, min_version, max_version) ==
  version_int < min_version \/ version_int > max_version

validate_sdk_version(v, min_version, max_version) ==
  LET version_int == PyInt(v)
  IN  IF ~version_int.ok
      THEN Reject(<<"SDK version must be a valid integer">>)
      ELSE IF SdkOutOfRange(version_int.val, min_version, max_version)
      THEN Reject(<<"SDK version must be between ">> \o NatStr(min_version)
                  \o <<" and ">> \o NatStr(max_version))
      ELSE Accept

validate_java_version(v) ==
  LET version_int == PyInt(v)
  IN  IF ~version_int.ok
      THEN Reject(<<"Java version must be a valid integer">>)
      ELSE IF version_int.val < 8 \/ version_int.val > 21
      THEN Reject(<<"Java version must be between 8 and 21">>)
      ELSE Accept

validate_email(email) ==
  IF email = <<>>
  THEN AcceptWarn(<<"Email address is empty (optional but recommended)">>)
  ELSE IF ~MatchEmail(email)
  THEN Reject(<<"Invalid email address format">>)
  ELSE Accept

validate_version_name(v) ==
  IF v = <<>>
  THEN Reject(<<"Version name cannot be empty">>)
  ELSE IF ~MatchSemver(v)
  THEN AcceptWarn(<<"Version name should follow semantic versioning (e.g., 1.0.0)">>)
  ELSE Accept

----------------------------------------------------------------------------
(* Contexts.                                                               *)

\* the table iterated in sorted order instead of insertion order
RequiredFieldsSorted ==
  <<"compile_sdk", "java_version", "min_sdk", "package_name", "project_name",
    "target_sdk", "version_name">>

\* required_fields of validate_all, in the dict's insertion order
RequiredFields ==
  <<"project_name", "package_name", "min_sdk", "target_sdk", "compile_sdk",
    "java_version", "version_name">>

ContextFields == Append(RequiredFields, "author_email")

\* marks a key the context does not hold
Absent == <<"<absent>">>

\* a context that passes every field rule without a warning
Reference(f) ==
  CASE f = "project_name" -> <<"A","p","p">>
    [] f = "package_name" -> <<"c","o","m",".","a","p","p">>
    [] f = "min_sdk"      -> <<"2","4">>
    [] f = "target_sdk"   -> <<"3","4">>
    [] f = "compile_sdk"  -> <<"3","4">>
    [] f = "java_version" -> <<"1","7">>
    [] f = "version_name" -> <<"1",".","0",".","0">>
    [] f = "author_email" -> Absent

\* the other values a field takes in the model
Alternatives(f) ==
  CASE f = "project_name" -> {Absent, <<>>, <<"9","a">>, <<"M","a","i","n">>}
    [] f = "package_name" -> {Absent, <<>>, <<"C","o","m",".","a">>}
    [] f = "min_sdk"      -> {Absent, <<"2","0">>}
    [] f = "target_sdk"   -> {Absent, <<"3","6">>}
    [] f = "compile_sdk"  -> {Absent, <<"3","x">>}
    [] f = "java_version" -> {Absent, <<"7">>, <<"1",".","8">>}
    [] f = "version_name" -> {Absent, <<>>, <<"1",".","0">>}
    [] f = "author_email" -> {<<>>, <<"a","@","b",".","c","o">>, <<"a","@","b">>}

EmptyContext == <<>>

Put(f, v, c) == IF v = Absent THEN c ELSE (f :> v) @@ c

\* the contexts over ContextFields[i..] that differ from Reference in at
\* most k fields
RECURSIVE ContextsFrom(_, _)
ContextsFrom(i, k) ==
  IF i > Len(ContextFields) THEN {EmptyContext}
  ELSE LET f == ContextFields[i]
       IN  {Put(f, Reference(f), c) : c \in ContextsFrom(i + 1, k)}
           \cup (IF k = 0 THEN {}
                 ELSE {Put(f, v, c) :
                         v \in Alternatives(f), c \in ContextsFrom(i + 1, k - 1)})

Contexts == ContextsFrom(1, MaxDeviations)

----------------------------------------------------------------------------
(* The validator: AndroidTemplateValidator.                                *)

NoResult == <<>>

NoEnv == <<>>

LogCall(level, msg) == [ch |-> level, msg |-> msg]

\* the rule required_fields binds to a field, lines 166-174
Rule(f, x) ==
  CASE f = "project_name" -> validate_project_name(x)
    [] f = "package_name" -> validate_package_name(x)
    [] f = "min_sdk"      -> validate_sdk_version(x, 21, 35)
    [] f = "target_sdk"   -> validate_sdk_version(x, 21, 35)
    [] f = "compile_sdk"  -> validate_sdk_version(x, 21, 35)
    [] f = "java_version" -> validate_java_version(x)
    [] f = "version_name" -> validate_version_name(x)

\* the test written as context.get(field): an empty value counts as absent
FieldPresentTruthy(c, f) == f \in DOMAIN c /\ c[f] # <<>>

\* field in context, lines 177 and 184
FieldPresent(c, f) == f \in DOMAIN c

MissingMsg(f) == <<"Required field '", f, "' is missing">>

\* [src, ..., src], one per message
Tags(msgs, src) == [i \in DOMAIN msgs |-> src]

\* one iteration of the loop of lines 176-181: what it appends and logs
CheckField(c, f) ==
  IF FieldPresent(c, f)
  THEN LET r == Rule(f, c[f])
       IN  [errs |-> r.errs, warns |-> r.warns,
            call |-> <<[kind |-> "rule", field |-> f]>>,
            logs |-> IF r.ret THEN <<>>
                     ELSE <<LogCall("logger.error",
                                    <<"Validation failed for ", f, ": ">> \o c[f])>>]
  ELSE [errs |-> <<MissingMsg(f)>>, warns |-> <<>>,
        call |-> <<[kind |-> "missing", field |-> f]>>, logs |-> <<>>]

\* lines 184-185
CheckEmail(c) ==
  IF FieldPresent(c, "author_email")
  THEN LET r == validate_email(c["author_email"])
       IN  [errs |-> r.errs, warns |-> r.warns,
            call |-> <<[kind |-> "rule", field |-> "author_email"]>>]
  ELSE [errs |-> <<>>, warns |-> <<>>, call |-> <<>>]

\* success computed from both lists
ReturnValueNoWarnings(errs, warns) == <<Len(errs) = 0 /\ Len(warns) = 0, errs, warns>>

\* len(self.errors) == 0, self.errors, self.warnings, line 204
ReturnValue(errs, warns) == <<Len(errs) = 0, errs, warns>>

\* AndroidTemplateValidator(), or an instance that has already run
BeginRun(fresh) ==
  /\ runs' = runs + 1
  /\ prev' = <<result, envObs>>
  /\ errors' = IF fresh THEN <<>> ELSE errors
  /\ warnings' = IF fresh THEN <<>> ELSE warnings
  /\ errSrc' = IF fresh THEN <<>> ELSE errSrc
  /\ calls' = <<>>
  /\ idx' = 1
  /\ result' = NoResult
  /\ envObs' = NoEnv
  /\ pc' = "fields"
  /\ out' = Append(out, LogCall("logger.section", <<"Template Validation">>))
  /\ UNCHANGED ctx

\* validate_template_inputs(context), lines 206-209
validate_template_inputs ==
  /\ pc = "ready"
  /\ BeginRun(TRUE)
  /\ UNCHANGED <<hookVars, sdkVars>>

\* validate_all, lines 176-181: one iteration of the loop
FieldStep ==
  /\ pc = "fields"
  /\ LET r == CheckField(ctx, RequiredFields[idx])
     IN  /\ errors' = errors \o r.errs
         /\ warnings' = warnings \o r.warns
         /\ errSrc' = errSrc \o Tags(r.errs, RequiredFields[idx])
         /\ calls' = calls \o r.call
         /\ out' = out \o r.logs
  /\ IF idx = Len(RequiredFields)
     THEN pc' = "email" /\ idx' = idx
     ELSE pc' = "fields" /\ idx' = idx + 1
  /\ UNCHANGED <<ctx, result, envObs, prev, runs, hookVars, sdkVars>>

\* validate_all, lines 183-185
EmailStep ==
  /\ pc = "email"
  /\ LET r == CheckEmail(ctx)
     IN  /\ errors' = errors \o r.errs
         /\ warnings' = warnings \o r.warns
         /\ errSrc' = errSrc \o Tags(r.errs, "author_email")
         /\ calls' = calls \o r.call
  /\ pc' = "environment"
  /\ UNCHANGED <<ctx, idx, out, result, envObs, prev, runs, hookVars, sdkVars>>

----------------------------------------------------------------------------
(* validate_environment.                                                   *)

\* how subprocess.run(['java', '-version'], timeout=10) ends: the exit
\* status it returns, or the exception it raises
JavaOutcomes ==
  {"exit_zero", "exit_nonzero", "TimeoutExpired", "FileNotFoundError",
   "PermissionError"}

\* except (subprocess.TimeoutExpired, FileNotFoundError), line 122
Caught == {"TimeoutExpired", "FileNotFoundError"}

\* lines 116-123: the messages of the runtime check, and whether the
\* exception leaves validate_environment
JavaCheck(outcome) ==
  IF outcome = "exit_zero"
  THEN [raised |-> FALSE, errs |-> <<>>,
        logs |-> <<LogCall("logger.success", <<"Java is installed">>)>>]
  ELSE IF outcome = "exit_nonzero"
  THEN [raised |-> FALSE, errs |-> <<<<"Java is not properly installed">>>>,
        logs |-> <<>>]
  ELSE IF outcome \in Caught
  THEN [raised |-> FALSE, errs |-> <<<<"Java is not installed">>>>, logs |-> <<>>]
  ELSE [raised |-> TRUE, errs |-> <<>>, logs |-> <<>>]

sdk_paths ==
  <<"~/Library/Android/sdk", "~/Android/Sdk",
    "C:/Users/<home.name>/AppData/Local/Android/Sdk">>

studio_paths ==
  <<"/Applications/Android Studio.app", "~/android-studio",
    "C:/Program Files/Android/Android Studio">>

\* the loops of lines 133-137 and 150-154: the results of the exists()
\* calls made, which stop at the first path that exists
RECURSIVE Probes(_, _)
Probes(paths, fs) ==
  IF paths = <<>> THEN <<>>
  ELSE IF paths[1] \in fs THEN <<TRUE>>
  ELSE <<FALSE>> \o Probes(Tail(paths), fs)

\* sdk_found, studio_found: the loop ended on a path that exists
Found(probes) == probes # <<>> /\ probes[Len(probes)]

\* the SDK check escalated to an error
SdkCheckBlocking(probes) ==
  IF Found(probes)
  THEN [errs |-> <<>>, warns |-> <<>>, logs |-> <<>>]
  ELSE [errs |-> <<<<"Android SDK not found in common locations">>>>,
        warns |-> <<>>, logs |-> <<>>]

\* lines 132-140
SdkCheck(probes) ==
  IF Found(probes)
  THEN [errs |-> <<>>, warns |-> <<>>,
        logs |-> <<LogCall("logger.success",
                           <<"Android SDK found at: ", sdk_paths[Len(probes)]>>)>>]
  ELSE [errs |-> <<>>,
        warns |-> <<<<"Android SDK not found in common locations">>>>,
        logs |-> <<>>]

\* lines 149-157
StudioCheck(probes) ==
  IF Found(probes)
  THEN [errs |-> <<>>, warns |-> <<>>,
        logs |-> <<LogCall("logger.success", <<"Android Studio is installed">>)>>]
  ELSE [errs |-> <<>>,
        warns |-> <<<<"Android Studio not found in common locations">>>>,
        logs |-> <<>>]

\* a second run on the same context finds the host as the first run did
HostStable(obs) == prev[2] = NoEnv \/ prev[2] = obs

\* validate_all line 188, validate_environment lines 111-159. The host is
\* sampled when it is probed: the outcome of the java invocation and the
\* set fs of candidate paths that exist.
EnvironmentStep ==
  /\ pc = "environment"
  /\ \E outcome \in JavaOutcomes, fs \in SUBSET (Range(sdk_paths) \cup Range(studio_paths)) :
       LET j == JavaCheck(outcome)
           sdk == Probes(sdk_paths, fs)
           studio == Probes(studio_paths, fs)
           s == SdkCheck(sdk)
           a == StudioCheck(studio)
           head == <<LogCall("logger.subsection", <<"Environment Validation">>)>>
       IN  /\ HostStable(<<outcome, sdk, studio>>)
           /\ IF j.raised
              THEN /\ pc' = "raised"
                   /\ envObs' = <<outcome>>
                   /\ out' = out \o head
                   /\ UNCHANGED <<errors, warnings, errSrc>>
              ELSE /\ pc' = "report"
                   /\ envObs' = <<outcome, sdk, studio>>
                   /\ errors' = errors \o j.errs \o s.errs \o a.errs
                   /\ errSrc' = errSrc \o Tags(j.errs \o s.errs \o a.errs, "environment")
                   /\ warnings' = warnings \o s.warns \o a.warns
                   /\ out' = out \o head \o j.logs \o s.logs \o a.logs
  /\ calls' = Append(calls, [kind |-> "probe", field |-> "environment"])
  /\ UNCHANGED <<ctx, idx, result, prev, runs, hookVars, sdkVars>>

Bullets(level, msgs) ==
  [i \in DOMAIN msgs |-> LogCall(level, <<"  - ">> \o msgs[i])]

\* validate_all, lines 190-202
Summary(errs, warns) ==
  (IF errs # <<>>
   THEN <<LogCall("logger.error",
                  <<"Found ">> \o NatStr(Len(errs)) \o <<" validation errors">>)>>
        \o Bullets("logger.error", errs)
   ELSE <<>>)
  \o (IF warns # <<>>
      THEN <<LogCall("logger.warning",
                     <<"Found ">> \o NatStr(Len(warns)) \o <<" warnings">>)>>
           \o Bullets("logger.warning", warns)
      ELSE <<>>)
  \o (IF errs = <<>> /\ warns = <<>>
      THEN <<LogCall("logger.success", <<"All validations passed successfully!">>)>>
      ELSE <<>>)

\* validate_all, lines 190-204
ReportStep ==
  /\ pc = "report"
  /\ out' = out \o Summary(errors, warnings)
  /\ result' = ReturnValue(errors, warnings)
  /\ pc' = "returned"
  /\ UNCHANGED <<ctx, errors, warnings, idx, calls, errSrc, envObs, prev, runs,
                 hookVars, sdkVars>>

----------------------------------------------------------------------------
(* One validation of one context.                                          *)

HookIdle ==
  /\ hpc = "none" /\ impl = "none" /\ contextFile = "none" /\ tempFile = FALSE
  /\ reqOutcome = "none" /\ exitCode = -1 /\ exitVia = "none"

SdkIdle == version = <<>> /\ ret = FALSE

ValidatorIdle ==
  /\ errors = <<>> /\ warnings = <<>> /\ idx = 1 /\ calls = <<>>
  /\ errSrc = <<>> /\ out = <<>> /\ result = NoResult /\ envObs = NoEnv
  /\ prev = <<NoResult, NoEnv>> /\ runs = 0

Init ==
  /\ ctx \in Contexts
  /\ pc = "ready"
  /\ ValidatorIdle
  /\ HookIdle
  /\ SdkIdle

Next ==
  \/ validate_template_inputs
  \/ FieldStep
  \/ EmailStep
  \/ EnvironmentStep
  \/ ReportStep

Spec == Init /\ [][Next]_vars

----------------------------------------------------------------------------
(* Properties of one validation (Spec).                                    *)

Count(seq, x) == Cardinality({i \in DOMAIN seq : seq[i] = x})

IsPrefix(a, b) == Len(a) <= Len(b) /\ SubSeq(b, 1, Len(a)) = a

Suffix(a, b) == SubSeq(b, Len(a) + 1, Len(b))

\* C1: whenever validate_all returns, the boolean it returns is true exactly
\* when the error list it returns is empty, whatever the warning list holds.
C1_SuccessIffNoErrors ==
  pc = "returned" => (result[1] <=> (result[2] = <<>>))

\* a run that returned success together with two warnings
C1_Witness ==
  pc = "returned" /\ result[1] /\ Len(result[3]) >= 2

LoopDone == pc \in {"email", "environment", "report", "returned", "raised"}

RuleCalls(f) == Count(calls, [kind |-> "rule", field |-> f])

\* C2: once the loop over the seven required fields has ended, an absent
\* field has exactly one "Required field '<field>' is missing" error and no
\* run of its rule, a present field has exactly one run of its rule and no
\* missing-field error, and a validate_all that returns with a required
\* field absent returns success = false.
C2_RequiredFields ==
  LoopDone =>
    \A f \in {"project_name", "package_name", "min_sdk", "target_sdk",
              "compile_sdk", "java_version", "version_name"} :
      LET missing == Count(errors, <<"Required field '", f, "' is missing">>)
      IN  /\ f \notin DOMAIN ctx => missing = 1 /\ RuleCalls(f) = 0
          /\ f \in DOMAIN ctx => missing = 0 /\ RuleCalls(f) = 1
          /\ (pc = "returned" /\ f \notin DOMAIN ctx) => ~result[1]

\* a returned run on a context without version_name and with an empty
\* project_name
C2_Witness ==
  /\ pc = "returned"
  /\ "version_name" \notin DOMAIN ctx
  /\ "project_name" \in DOMAIN ctx /\ ctx["project_name"] = <<>>

\* C3: validate_all never raises, whatever the context and however the java
\* invocation ends.
C3_NeverRaises == pc # "raised"

DeclaredOrder ==
  <<"project_name", "package_name", "min_sdk", "target_sdk", "compile_sdk",
    "java_version", "version_name", "author_email", "environment">>

Rank(x) == CHOOSE i \in DOMAIN DeclaredOrder : DeclaredOrder[i] = x

Ascending(seq) ==
  \A i, j \in DOMAIN seq : i < j => Rank(seq[i]) <= Rank(seq[j])

CallFields == [i \in DOMAIN calls |-> calls[i].field]

\* C9: the checks run in the declared order (the seven required fields,
\* then author_email, then the environment probe), each at most once; the
\* errors lie in the error list in that order, so every field error precedes
\* every environment error; and when the run reaches its report every
\* required field has been checked and the environment probe has run,
\* whatever the earlier checks produced.
C9_FixedOrder ==
  /\ Len(errSrc) = Len(errors)
  /\ Ascending(errSrc)
  /\ \A i, j \in DOMAIN calls : i < j => Rank(calls[i].field) < Rank(calls[j].field)
  /\ pc \in {"report", "returned", "raised"} =>
       /\ \A k \in 1..7 : Count(CallFields, DeclaredOrder[k]) = 1
       /\ calls[Len(calls)].kind = "probe"
       /\ Count(CallFields, "author_email") = 1 <=> "author_email" \in DOMAIN ctx

\* a returned run whose first field failed, whose last field failed too, and
\* whose environment probe added an error after them
C9_Witness ==
  /\ pc = "returned"
  /\ Len(errSrc) = 3
  /\ errSrc = <<"project_name", "version_name", "environment">>

EnvErrors(outcome) ==
  IF outcome = "exit_zero" THEN <<>>
  ELSE IF outcome = "exit_nonzero" THEN << <<"Java is not properly installed">> >>
  ELSE << <<"Java is not installed">> >>

NoneExists(probes) == Len(probes) = 3 /\ \A i \in DOMAIN probes : ~probes[i]

EnvWarnings(sdk, studio) ==
  (IF NoneExists(sdk)
   THEN << <<"Android SDK not found in common locations">> >> ELSE <<>>)
  \o (IF NoneExists(studio)
      THEN << <<"Android Studio not found in common locations">> >> ELSE <<>>)

\* C10: a validate_environment that returns leaves the earlier messages in
\* place and appends to the error list only the runtime's message (none for
\* exit code zero, "not properly installed" for a non-zero exit, "not
\* installed" for a timeout or a tool that is not found), and to the warning
\* list one warning for the SDK and one for the IDE, each exactly when none
\* of its candidate paths exists; and a run with no field error and a
\* working runtime returns success = true.
C10_EnvironmentMessages ==
  [][ /\ (pc = "environment" /\ pc' = "report") =>
           /\ envObs'[1] \in {"exit_zero", "exit_nonzero", "TimeoutExpired",
                              "FileNotFoundError"}
           /\ IsPrefix(errors, errors') /\ IsPrefix(warnings, warnings')
           /\ Suffix(errors, errors') = EnvErrors(envObs'[1])
           /\ Suffix(warnings, warnings') = EnvWarnings(envObs'[2], envObs'[3])
      /\ (pc' = "returned" /\ envObs'[1] = "exit_zero"
            /\ \A i \in DOMAIN errSrc' : errSrc'[i] = "environment") =>
           result'[1]
    ]_vars

\* a run with a working runtime and neither SDK nor IDE on the host, which
\* returned success with the two warnings
C10_Witness ==
  /\ pc = "returned"
  /\ envObs = <<"exit_zero", <<FALSE, FALSE, FALSE>>, <<FALSE, FALSE, FALSE>>>>
  /\ result[1]
  /\ Len(result[3]) = 2

----------------------------------------------------------------------------
(* A direct call of validate_sdk_version with its default bounds.          *)

\* min_version: int = 21, line 59
DefaultMinVersion == 21

\* max_version: int = 35, line 59
DefaultMaxVersion == 35

SdkAlphabet == {"0", "1", "2", "3", "5", "6", "+", "-", "_", " ", "x"}

Strings == UNION {[1..k -> SdkAlphabet] : k \in 0..MaxLen}

InitSdk ==
  /\ version \in Strings
  /\ ret = FALSE
  /\ ctx = EmptyContext
  /\ pc = "sdk_ready"
  /\ ValidatorIdle
  /\ HookIdle

\* AndroidTemplateValidator().validate_sdk_version(version)
validate_sdk_version_call ==
  /\ pc = "sdk_ready"
  /\ LET r == validate_sdk_version(version, DefaultMinVersion, DefaultMaxVersion)
     IN  /\ errors' = errors \o r.errs
         /\ warnings' = warnings \o r.warns
         /\ ret' = r.ret
  /\ pc' = "sdk_done"
  /\ UNCHANGED <<ctx, idx, calls, errSrc, out, result, envObs, prev, runs,
                 hookVars, version>>

NextSdk == validate_sdk_version_call

SpecSdk == InitSdk /\ [][NextSdk]_vars

\* C8: validate_sdk_version with the default bounds returns true and appends
\* nothing exactly when int(version) yields an n with 21 <= n <= 35;
\* otherwise (an n outside the range, or a ValueError) it returns false
\* with exactly one error appended and no warning; and the call always
\* completes.
C8_SdkVersionRange ==
  /\ pc = "sdk_ready" => ENABLED validate_sdk_version_call
  /\ pc = "sdk_done" =>
       LET n == PyInt(version)
       IN  /\ ret <=> (n.ok /\ 21 <= n.val /\ n.val <= 35)
           /\ ret => errors = <<>>
           /\ ~ret => Len(errors) = 1
           /\ warnings = <<>>

\* the call on "21", the lower bound, which is accepted
C8_Witness ==
  pc = "sdk_done" /\ version = <<"2", "1">> /\ ret /\ errors = <<>>

----------------------------------------------------------------------------
(* Two validations of one context.                                         *)

\* validate_template_inputs(context) a second time: a new instance
SecondCall ==
  /\ pc = "returned"
  /\ runs < MaxRuns
  /\ BeginRun(TRUE)
  /\ UNCHANGED <<hookVars, sdkVars>>

\* validator.validate_all(context) a second time on the same instance
SecondCallSameInstance ==
  /\ pc = "returned"
  /\ runs < MaxRuns
  /\ BeginRun(FALSE)
  /\ UNCHANGED <<hookVars, sdkVars>>

NextReuse ==
  \/ validate_template_inputs
  \/ FieldStep
  \/ EmailStep
  \/ EnvironmentStep
  \/ ReportStep
  \/ SecondCall
  \/ SecondCallSameInstance

SpecReuse == Init /\ [][NextReuse]_vars

\* C6: a second validation of the same context on the same host returns
\* the error list and the warning list the first one returned.
C6_Idempotent ==
  (runs = 2 /\ pc = "returned" /\ envObs = prev[2]) =>
    (result[2] = prev[1][2] /\ result[3] = prev[1][3])

----------------------------------------------------------------------------
(* The hook: main() of post_gen_project.py.                                *)

PrintCall(text) == LogCall("print", <<text>>)

\* The import of lines 17-32 binds validate_template_inputs either to the
\* validator's ("full") or, on ImportError, to the fallback that returns
\* (True, [], []) ("fallback"). cookiecutter_context.json is missing, holds
\* a JSON object ("valid"), or holds text json.load rejects ("malformed").
InitHook ==
  /\ contextFile \in {"missing", "valid", "malformed"}
  /\ impl \in {"full", "fallback"}
  /\ ctx \in (IF contextFile = "valid" THEN Contexts ELSE {EmptyContext})
  /\ tempFile = (contextFile # "missing")
  /\ hpc = "start"
  /\ reqOutcome = "none" /\ exitCode = -1 /\ exitVia = "none"
  /\ pc = "ready"
  /\ ValidatorIdle
  /\ SdkIdle

\* the process ends: sys.exit(code), an exception nothing catches (Python
\* exits with status 1), or main() returning
Exit(code, via) ==
  /\ hpc' = "exited"
  /\ exitCode' = code
  /\ exitVia' = via

\* lines 47-54 and 72-74
HookLoadContext ==
  /\ hpc = "start"
  /\ IF contextFile = "missing"
     THEN /\ out' = Append(out, PrintCall("Template context file not found, skipping validation"))
          /\ hpc' = "setup"
          /\ UNCHANGED <<exitCode, exitVia>>
     ELSE IF contextFile = "malformed"
     THEN /\ out' = Append(out, PrintCall("Loading Template Context"))
          /\ Exit(1, "uncaught")
     ELSE /\ out' = out \o <<PrintCall("Loading Template Context"),
                             PrintCall("Template context loaded successfully")>>
          /\ hpc' = "loaded"
          /\ UNCHANGED <<exitCode, exitVia>>
  /\ UNCHANGED <<valVars, impl, contextFile, tempFile, reqOutcome, sdkVars>>

\* line 58 with the validator's validate_template_inputs
HookValidateFull ==
  /\ hpc = "loaded"
  /\ impl = "full"
  /\ pc = "ready"
  /\ BeginRun(TRUE)
  /\ hpc' = "validating"
  /\ UNCHANGED <<impl, contextFile, tempFile, reqOutcome, exitCode, exitVia, sdkVars>>

\* line 58 with the fallback of lines 28-30
HookValidateFallback ==
  /\ hpc = "loaded"
  /\ impl = "fallback"
  /\ result' = <<TRUE, <<>>, <<>>>>
  /\ hpc' = "validated"
  /\ UNCHANGED <<ctx, errors, warnings, pc, idx, calls, errSrc, out, envObs, prev,
                 runs, impl, contextFile, tempFile, reqOutcome, exitCode, exitVia,
                 sdkVars>>

\* an exception leaving validate_all leaves main() too
HookUncaught ==
  /\ hpc = "validating"
  /\ pc = "raised"
  /\ Exit(1, "uncaught")
  /\ UNCHANGED <<valVars, out, impl, contextFile, tempFile, reqOutcome, sdkVars>>

\* the validation failure also raised by warnings
ValidationFailedOrWarned(res) == ~res[1] \/ res[3] # <<>>

\* if not is_valid, line 60
ValidationFailed(res) == ~res[1]

\* lines 60-70
HookDecide ==
  /\ hpc = "validated" \/ (hpc = "validating" /\ pc = "returned")
  /\ IF ValidationFailed(result)
     THEN /\ out' = out \o <<PrintCall("Template validation failed!"),
                             PrintCall("Please fix the errors and regenerate the template.")>>
          /\ Exit(1, "sys.exit:63")
     ELSE /\ out' = out
                    \o (IF result[3] # <<>>
                        THEN <<PrintCall("Template generated with warnings. Please review:")>>
                             \o Bullets("print", result[3])
                        ELSE <<>>)
                    \o <<PrintCall("Template validation completed successfully!")>>
          /\ hpc' = "setup"
          /\ UNCHANGED <<exitCode, exitVia>>
  /\ UNCHANGED <<valVars, impl, contextFile, tempFile, reqOutcome, sdkVars>>

required_files ==
  <<"app/build.gradle.kts", "app/src/main/java",
    "app/src/main/AndroidManifest.xml", "build.gradle.kts",
    "settings.gradle.kts", "gradlew", "gradlew.bat">>

\* bool(Path(project_dir) / file_path): a path object is always true
PathTruthy(file_path) == TRUE

\* the list filled by testing that each path exists
MissingFilesByExistence(fs) == SelectSeq(required_files, LAMBDA f : f \notin fs)

\* missing_files, lines 91-94, with fs the required files that exist: the
\* test is made on the path object, not on the file system
MissingFiles(fs) == SelectSeq(required_files, LAMBDA f : ~PathTruthy(f))

\* step 1, lines 76-100
HookVerifyStructure ==
  /\ hpc = "setup"
  /\ \E fs \in SUBSET Range(required_files) :
       LET missing_files == MissingFiles(fs)
       IN  IF missing_files # <<>>
           THEN /\ out' = out \o <<PrintCall("Step 1/3: Verifying project structure"),
                                   LogCall("print", <<"Missing required files: ">> \o missing_files)>>
                /\ Exit(1, "sys.exit:98")
           ELSE /\ out' = out \o <<PrintCall("Step 1/3: Verifying project structure"),
                                   PrintCall("Project structure verified")>>
                /\ hpc' = "requirements"
                /\ UNCHANGED <<exitCode, exitVia>>
  /\ UNCHANGED <<valVars, impl, contextFile, tempFile, reqOutcome, sdkVars>>

\* step 2, lines 102-116: the import, the generator or the write raises an
\* Exception, which is caught and printed, or REQUIREMENTS.md is written
HookRequirements ==
  /\ hpc = "requirements"
  /\ \E outcome \in {"written", "Exception"} :
       /\ reqOutcome' = outcome
       /\ out' = out \o <<PrintCall("Step 2/3: Generating requirements file"),
                          IF outcome = "written"
                          THEN PrintCall("Requirements file generated: REQUIREMENTS.md")
                          ELSE PrintCall("Could not generate requirements file: <e>")>>
  /\ hpc' = "cleanup"
  /\ UNCHANGED <<valVars, impl, contextFile, tempFile, exitCode, exitVia, sdkVars>>

\* the clean-up without the unlink
CleanupSkipped(exists) == exists

\* if temp_file.exists(): temp_file.unlink(), lines 121-122: whether the
\* file exists afterwards
AfterCleanup(exists) == IF exists THEN FALSE ELSE exists

\* step 3 and the closing messages, lines 118-152
HookCleanup ==
  /\ hpc = "cleanup"
  /\ tempFile' = AfterCleanup(tempFile)
  /\ out' = out \o <<PrintCall("Step 3/3: Cleaning up temporary files")>>
                \o (IF tempFile THEN <<PrintCall("Temporary files cleaned up")>> ELSE <<>>)
                \o <<PrintCall("Generation Complete")>>
                \o (IF ctx # EmptyContext THEN <<PrintCall("Project Information")>> ELSE <<>>)
  /\ Exit(0, "return")
  /\ UNCHANGED <<valVars, impl, contextFile, reqOutcome, sdkVars>>

NextHook ==
  \/ HookLoadContext
  \/ HookValidateFull
  \/ HookValidateFallback
  \/ FieldStep
  \/ EmailStep
  \/ EnvironmentStep
  \/ ReportStep
  \/ HookUncaught
  \/ HookDecide
  \/ HookVerifyStructure
  \/ HookRequirements
  \/ HookCleanup

SpecHook == InitHook /\ [][NextHook]_vars

----------------------------------------------------------------------------
(* Properties of the hook (SpecHook).                                      *)

\* validation handed a result back to main()
Validated == contextFile = "valid" /\ result # NoResult

Position(entry) ==
  IF \E i \in DOMAIN out : out[i] = entry
  THEN CHOOSE i \in DOMAIN out : out[i] = entry
  ELSE 0

Told == Position(PrintCall("Please fix the errors and regenerate the template."))

\* every returned error is in the output before the instruction to fix and
\* regenerate
ErrorsPrintedThenTold ==
  /\ Told > 0
  /\ \A i \in DOMAIN result[2] :
       \E q \in 1..(Told - 1) :
         out[q] = LogCall("logger.error", <<"  - ">> \o result[2][i])

SetupDone ==
  /\ Position(PrintCall("Project structure verified")) > 0
  /\ reqOutcome \in {"written", "Exception"}
  /\ Position(PrintCall("Step 3/3: Cleaning up temporary files")) > 0

\* C4: with the context file present and a validation that returned, the
\* run never stops before the process ends; it ends with exit code 1 through
\* the validation-error exit when the error list is non-empty, with every
\* error printed and the user told to fix and regenerate beforehand; and it
\* ends with exit code 0, after the three setup steps, when the error list
\* is empty, whatever the warnings.
C4_ExitCode ==
  Validated =>
    /\ hpc # "exited" => ENABLED NextHook
    /\ hpc = "exited" =>
         IF result[2] # <<>>
         THEN exitCode = 1 /\ exitVia = "sys.exit:63" /\ ErrorsPrintedThenTold
         ELSE exitCode = 0 /\ exitVia = "return" /\ SetupDone

\* a run that ended with exit code 1 on two returned errors
C4_Witness ==
  /\ hpc = "exited" /\ Validated
  /\ exitCode = 1 /\ Len(result[2]) = 2

====
